---- MODULE Spec2Model ----
(***************************************************************************)
(* IRCTC railway-enquiry IVR (src/main.py): the webhook handlers that      *)
(* answer a telephony provider's callbacks with a voice document, the      *)
(* text-simulation route /process, and the two record-store lookups.       *)
(*                                                                         *)
(* A string is a sequence of one-character strings, so that comparison,    *)
(* lower-casing and substring search are computed as Python computes them. *)
(* An optional value (a form field that may be missing, Python's None) is  *)
(* a record [present, value].                                              *)
(***************************************************************************)
EXTENDS Integers, Sequences, FiniteSets, TLC

VARIABLES store, req, resp, status, consulted, ret, pending, prev, hops,
          inflight

vars == <<store, req, resp, status, consulted, ret, pending, prev, hops,
          inflight>>

\* a call in progress, as the provider holds it
callvars == <<pending, prev, hops>>

(***************************************************************************)
(* Bounds of the model.                                                    *)
(***************************************************************************)
\* longest Digits string a request carries
MaxLen == 2
\* most words a simulated text is made of
MaxWords == 3
\* redirects in a row that are still counted
MaxHops == 3
\* calls whose requests are handled concurrently
NumCalls == 2

(***************************************************************************)
(* Strings and optional values.                                            *)
(***************************************************************************)
None == [present |-> FALSE, value |-> <<>>]
Some(s) == [present |-> TRUE, value |-> s]

\* the keypad characters a provider can collect
KeypadChars == {"0", "1", "2", "3", "4", "5", "6", "7", "8", "9", "*", "#"}

RECURSIVE StringsUpTo(_, _)
StringsUpTo(chars, n) ==
    IF n = 0 THEN {<<>>}
    ELSE LET shorter == StringsUpTo(chars, n - 1)
         IN  shorter \cup {Append(s, c) : s \in shorter, c \in chars}

\* what form_data.get("Digits") can return: a string, or None when missing
DigitInputs ==
    {None} \cup {Some(s) : s \in StringsUpTo(KeypadChars, MaxLen)}
           \cup {Some(<<"1", "2", "3", "4", "5">>), Some(<<"1", "2", "3", "4", "5", "6", "7", "8", "9", "0">>)}

\* str(x) as an f-string placeholder formats it: None prints as "None"
PyStr(opt) == IF opt.present THEN opt.value ELSE <<"N", "o", "n", "e">>

(***************************************************************************)
(* Voice documents: a sequence of verbs, as VoiceResponse builds them.     *)
(* A spoken text is a template and the values formatted into it.           *)
(***************************************************************************)
Text(template, args) == [template |-> template, args |-> args]
Lit(template) == Text(template, <<>>)

Say(text) == [verb |-> "Say", text |-> text]
Gather(numDigits, action, text) ==
    [verb |-> "Gather", numDigits |-> numDigits, action |-> action,
     method |-> "POST", say |-> text]
Hangup == [verb |-> "Hangup"]
Redirect(url) == [verb |-> "Redirect", url |-> url]

WelcomeText == Lit("Welcome to IRCTC Railway Enquiry System. Press 1 for English. Press 2 for Hindi.")
MenuText == Lit("Press 1 for PNR Status. Press 2 for Train Running Status. Press 3 for Train Schedule. Press 4 for Ticket Booking Information. Press 5 for Cancellation Policy. Press 9 to repeat this menu. Press 0 to exit.")
NoInputText == Lit("No input received. Goodbye.")
HindiText == Lit("Hindi option is under development.")
InvalidSelectionText == Lit("Invalid selection.")
EnterPnrText == Lit("Please enter your 10 digit PNR number.")
EnterTrainText == Lit("Please enter your 5 digit train number.")
BookingText == Lit("Tickets can be booked through the IRCTC website or mobile application. Booking opens 120 days before departure.")
CancellationText == Lit("Cancellation charges depend on timing. If cancelled more than 48 hours before departure, minimal charges apply.")
GoodbyeText == Lit("Thank you for calling IRCTC. Goodbye.")
InvalidOptionText == Lit("Invalid option selected.")
PnrText(pnr_number) ==
    Text("PNR number {}. Your ticket is confirmed. Coach S 3. Seat 45.", <<PyStr(pnr_number)>>)
TrainStatusText(train_number) ==
    Text("Train number {} is running on time. Expected arrival at 4 PM.", <<PyStr(train_number)>>)
TrainScheduleText(train_number) ==
    Text("Train number {} departs from Chennai at 10 AM and arrives in Bangalore at 4 PM.", <<PyStr(train_number)>>)

(***************************************************************************)
(* The stage handlers: the document each builds from the Digits it reads.  *)
(***************************************************************************)
\* voice, had the welcome gather named the main menu as its next route
voice_skips_language == <<Gather(1, "/main-menu", WelcomeText), Say(NoInputText), Hangup>>

voice == <<Gather(1, "/language", WelcomeText), Say(NoInputText), Hangup>>

\* language, had the Hindi branch gone on instead of hanging up
language_hindi_continues(digit) ==
    IF digit = Some(<<"1">>) THEN <<Gather(1, "/main-menu", MenuText)>>
    ELSE IF digit = Some(<<"2">>) THEN <<Say(HindiText), Redirect("/voice")>>
    ELSE <<Say(InvalidSelectionText), Redirect("/voice")>>

\* language, had the menu gather named a route no handler is mounted on
language_route_typo(digit) ==
    IF digit = Some(<<"1">>) THEN <<Gather(1, "/main_menu", MenuText)>>
    ELSE IF digit = Some(<<"2">>) THEN <<Say(HindiText), Hangup>>
    ELSE <<Say(InvalidSelectionText), Redirect("/voice")>>

\* language, had an invalid selection asked the language stage again
language_reprompts(digit) ==
    IF digit = Some(<<"1">>) THEN <<Gather(1, "/main-menu", MenuText)>>
    ELSE IF digit = Some(<<"2">>) THEN <<Say(HindiText), Hangup>>
    ELSE <<Say(InvalidSelectionText), Redirect("/language")>>

language(digit) ==
    IF digit = Some(<<"1">>) THEN <<Gather(1, "/main-menu", MenuText)>>
    ELSE IF digit = Some(<<"2">>) THEN <<Say(HindiText), Hangup>>
    ELSE <<Say(InvalidSelectionText), Redirect("/voice")>>

FirstKey(digit) ==
    IF digit.present /\ Len(digit.value) > 1 THEN Some(<<digit.value[1]>>) ELSE digit

\* main_menu, had it matched on the first key pressed only
main_menu_first_key(digit) ==
    IF FirstKey(digit) = Some(<<"1">>) THEN <<Gather(10, "/pnr", EnterPnrText)>>
    ELSE IF FirstKey(digit) = Some(<<"2">>) THEN <<Gather(5, "/train-status", EnterTrainText)>>
    ELSE IF FirstKey(digit) = Some(<<"3">>) THEN <<Gather(5, "/train-schedule", EnterTrainText)>>
    ELSE IF FirstKey(digit) = Some(<<"4">>) THEN <<Say(BookingText), Redirect("/repeat-menu")>>
    ELSE IF FirstKey(digit) = Some(<<"5">>) THEN <<Say(CancellationText), Redirect("/repeat-menu")>>
    ELSE IF FirstKey(digit) = Some(<<"9">>) THEN <<Redirect("/voice")>>
    ELSE IF FirstKey(digit) = Some(<<"0">>) THEN <<Say(GoodbyeText), Hangup>>
    ELSE <<Say(InvalidOptionText), Redirect("/voice")>>

\* main_menu, had it asked for the digit counts the wrong way round
main_menu_swapped_counts(digit) ==
    IF digit = Some(<<"1">>) THEN <<Gather(5, "/pnr", EnterPnrText)>>
    ELSE IF digit = Some(<<"2">>) THEN <<Gather(10, "/train-status", EnterTrainText)>>
    ELSE IF digit = Some(<<"3">>) THEN <<Gather(10, "/train-schedule", EnterTrainText)>>
    ELSE IF digit = Some(<<"4">>) THEN <<Say(BookingText), Redirect("/repeat-menu")>>
    ELSE IF digit = Some(<<"5">>) THEN <<Say(CancellationText), Redirect("/repeat-menu")>>
    ELSE IF digit = Some(<<"9">>) THEN <<Redirect("/voice")>>
    ELSE IF digit = Some(<<"0">>) THEN <<Say(GoodbyeText), Hangup>>
    ELSE <<Say(InvalidOptionText), Redirect("/voice")>>

\* main_menu, had option 9 repeated the menu through /repeat-menu
main_menu_repeat_route(digit) ==
    IF digit = Some(<<"1">>) THEN <<Gather(10, "/pnr", EnterPnrText)>>
    ELSE IF digit = Some(<<"2">>) THEN <<Gather(5, "/train-status", EnterTrainText)>>
    ELSE IF digit = Some(<<"3">>) THEN <<Gather(5, "/train-schedule", EnterTrainText)>>
    ELSE IF digit = Some(<<"4">>) THEN <<Say(BookingText), Redirect("/repeat-menu")>>
    ELSE IF digit = Some(<<"5">>) THEN <<Say(CancellationText), Redirect("/repeat-menu")>>
    ELSE IF digit = Some(<<"9">>) THEN <<Redirect("/repeat-menu")>>
    ELSE IF digit = Some(<<"0">>) THEN <<Say(GoodbyeText), Hangup>>
    ELSE <<Say(InvalidOptionText), Redirect("/voice")>>

\* main_menu, had option 0 started over instead of ending the call
main_menu_exit_restarts(digit) ==
    IF digit = Some(<<"1">>) THEN <<Gather(10, "/pnr", EnterPnrText)>>
    ELSE IF digit = Some(<<"2">>) THEN <<Gather(5, "/train-status", EnterTrainText)>>
    ELSE IF digit = Some(<<"3">>) THEN <<Gather(5, "/train-schedule", EnterTrainText)>>
    ELSE IF digit = Some(<<"4">>) THEN <<Say(BookingText), Redirect("/repeat-menu")>>
    ELSE IF digit = Some(<<"5">>) THEN <<Say(CancellationText), Redirect("/repeat-menu")>>
    ELSE IF digit = Some(<<"9">>) THEN <<Redirect("/voice")>>
    ELSE IF digit = Some(<<"0">>) THEN <<Say(GoodbyeText), Redirect("/voice")>>
    ELSE <<Say(InvalidOptionText), Redirect("/voice")>>

\* main_menu, had an invalid option ended the call
main_menu_invalid_hangs_up(digit) ==
    IF digit = Some(<<"1">>) THEN <<Gather(10, "/pnr", EnterPnrText)>>
    ELSE IF digit = Some(<<"2">>) THEN <<Gather(5, "/train-status", EnterTrainText)>>
    ELSE IF digit = Some(<<"3">>) THEN <<Gather(5, "/train-schedule", EnterTrainText)>>
    ELSE IF digit = Some(<<"4">>) THEN <<Say(BookingText), Redirect("/repeat-menu")>>
    ELSE IF digit = Some(<<"5">>) THEN <<Say(CancellationText), Redirect("/repeat-menu")>>
    ELSE IF digit = Some(<<"9">>) THEN <<Redirect("/voice")>>
    ELSE IF digit = Some(<<"0">>) THEN <<Say(GoodbyeText), Hangup>>
    ELSE <<Say(InvalidOptionText), Hangup>>

\* main_menu, had options 2 and 3 named each other's route
main_menu_swapped_routes(digit) ==
    IF digit = Some(<<"1">>) THEN <<Gather(10, "/pnr", EnterPnrText)>>
    ELSE IF digit = Some(<<"2">>) THEN <<Gather(5, "/train-schedule", EnterTrainText)>>
    ELSE IF digit = Some(<<"3">>) THEN <<Gather(5, "/train-status", EnterTrainText)>>
    ELSE IF digit = Some(<<"4">>) THEN <<Say(BookingText), Redirect("/repeat-menu")>>
    ELSE IF digit = Some(<<"5">>) THEN <<Say(CancellationText), Redirect("/repeat-menu")>>
    ELSE IF digit = Some(<<"9">>) THEN <<Redirect("/voice")>>
    ELSE IF digit = Some(<<"0">>) THEN <<Say(GoodbyeText), Hangup>>
    ELSE <<Say(InvalidOptionText), Redirect("/voice")>>

main_menu(digit) ==
    IF digit = Some(<<"1">>) THEN <<Gather(10, "/pnr", EnterPnrText)>>
    ELSE IF digit = Some(<<"2">>) THEN <<Gather(5, "/train-status", EnterTrainText)>>
    ELSE IF digit = Some(<<"3">>) THEN <<Gather(5, "/train-schedule", EnterTrainText)>>
    ELSE IF digit = Some(<<"4">>) THEN <<Say(BookingText), Redirect("/repeat-menu")>>
    ELSE IF digit = Some(<<"5">>) THEN <<Say(CancellationText), Redirect("/repeat-menu")>>
    ELSE IF digit = Some(<<"9">>) THEN <<Redirect("/voice")>>
    ELSE IF digit = Some(<<"0">>) THEN <<Say(GoodbyeText), Hangup>>
    ELSE <<Say(InvalidOptionText), Redirect("/voice")>>

\* repeat_menu, had it looped back to the welcome instead of hanging up
repeat_menu_loops == <<Gather(1, "/main-menu", MenuText), Redirect("/voice")>>

\* repeat_menu, had its gather named the language stage as its next route
repeat_menu_to_language == <<Gather(1, "/language", MenuText), Hangup>>

repeat_menu == <<Gather(1, "/main-menu", MenuText), Hangup>>

(***************************************************************************)
(* The record store: the JSON file both lookups open and parse on every    *)
(* call.  It is either unreadable or a mapping from keys to records; a     *)
(* record is PNR-shaped (status, coach, seat) or train-shaped (departure,  *)
(* arrival).  Nothing in the program writes it.                            *)
(***************************************************************************)
K_PNR123 == <<"P", "N", "R", "1", "2", "3">>
K_12345 == <<"1", "2", "3", "4", "5">>
StoreKeys == {K_PNR123, K_12345}

PnrRecord == [status |-> <<"c", "o", "n", "f", "i", "r", "m", "e", "d">>, coach |-> <<"S", "3">>, seat |-> <<"4", "5">>]
TrainRecord == [departure |-> <<"1", "0", " ", "A", "M">>, arrival |-> <<"4", " ", "P", "M">>]
NightTrainRecord == [departure |-> <<"9", " ", "P", "M">>, arrival |-> <<"6", " ", "A", "M">>]
Records == {PnrRecord, TrainRecord, NightTrainRecord}

Unreadable == [available |-> FALSE, data |-> <<>>]
Stores ==
    {Unreadable} \cup
    {[available |-> TRUE, data |-> d] :
        d \in UNION {[ks -> Records] : ks \in SUBSET StoreKeys}}

Returned(value) == [raised |-> FALSE, exc |-> "", value |-> value]
Raised(exc) == [raised |-> TRUE, exc |-> exc, value |-> Lit("")]

PnrNotFoundText == Lit("PNR not found.")
TrainNotFoundText == Lit("Train not found.")
TicketText(ticket) ==
    Text("Your ticket is {} in coach {} seat {}.",
         <<ticket["status"], ticket["coach"], ticket["seat"]>>)
TimingText(train) ==
    Text("Train departs at {} and arrives at {}.",
         <<train["departure"], train["arrival"]>>)

\* open() raises when the file is missing; ticket['status'] raises KeyError
\* when the record under the key has no such field
get_pnr_status(key, st) ==
    IF ~st.available THEN Raised("FileNotFoundError")
    ELSE IF key \in DOMAIN st.data
         THEN LET ticket == st.data[key]
              IN  IF {"status", "coach", "seat"} \subseteq DOMAIN ticket
                  THEN Returned(TicketText(ticket))
                  ELSE Raised("KeyError")
         ELSE Returned(PnrNotFoundText)

\* get_train_timing, had it answered with canned times instead of the record
get_train_timing_canned(train_no, st) ==
    Returned(Text("Train departs at {} and arrives at {}.",
                  <<TrainRecord["departure"], TrainRecord["arrival"]>>))

get_train_timing(train_no, st) ==
    IF ~st.available THEN Raised("FileNotFoundError")
    ELSE IF train_no \in DOMAIN st.data
         THEN LET train == st.data[train_no]
              IN  IF {"departure", "arrival"} \subseteq DOMAIN train
                  THEN Returned(TimingText(train))
                  ELSE Raised("KeyError")
         ELSE Returned(TrainNotFoundText)

(***************************************************************************)
(* The outcome of one request: the HTTP status, the document (none when    *)
(* the handler raised) and the lookups the handler made.                   *)
(***************************************************************************)
Call(fn, key) == [fn |-> fn, key |-> key]
Outcome(code, doc, calls) == [status |-> code, doc |-> doc, calls |-> calls]
Ok(doc) == Outcome(200, doc, <<>>)

(***************************************************************************)
(* The three prompt stages: each has the store at hand (the lookups are    *)
(* module functions) and announces its canned message without a lookup.    *)
(***************************************************************************)
\* pnr, had it announced what the store holds under the collected number
pnr_looked_up(pnr_number, st) ==
    LET key == PyStr(pnr_number)
        result == get_pnr_status(key, st)
        calls == <<Call("get_pnr_status", key)>>
    IN  IF result.raised THEN Outcome(500, <<>>, calls)
        ELSE Outcome(200, <<Say(result.value), Redirect("/repeat-menu")>>, calls)

pnr(pnr_number, st) ==
    Ok(<<Say(PnrText(pnr_number)), Redirect("/repeat-menu")>>)

\* train_status, had it announced what the store holds under the number
train_status_looked_up(train_number, st) ==
    LET key == PyStr(train_number)
        result == get_train_timing(key, st)
        calls == <<Call("get_train_timing", key)>>
    IN  IF result.raised THEN Outcome(500, <<>>, calls)
        ELSE Outcome(200, <<Say(result.value), Redirect("/repeat-menu")>>, calls)

train_status(train_number, st) ==
    Ok(<<Say(TrainStatusText(train_number)), Redirect("/repeat-menu")>>)

train_schedule(train_number, st) ==
    Ok(<<Say(TrainScheduleText(train_number)), Redirect("/repeat-menu")>>)

(***************************************************************************)
(* /process: intent detection on the lower-cased simulated text.           *)
(***************************************************************************)
UpperCase == <<"A", "B", "C", "D", "E", "F", "G", "H", "I", "J", "K", "L", "M", "N", "O", "P", "Q", "R", "S", "T", "U", "V", "W", "X", "Y", "Z">>
LowerCase == <<"a", "b", "c", "d", "e", "f", "g", "h", "i", "j", "k", "l", "m", "n", "o", "p", "q", "r", "s", "t", "u", "v", "w", "x", "y", "z">>

\* str.lower() on one character
LowerChar(c) ==
    IF \E i \in 1..Len(UpperCase) : UpperCase[i] = c
    THEN LowerCase[CHOOSE i \in 1..Len(UpperCase) : UpperCase[i] = c]
    ELSE c

lower(s) == [i \in 1..Len(s) |-> LowerChar(s[i])]

\* Python's "sub in s" on strings
Contains(sub, s) ==
    \E i \in 1..(Len(s) - Len(sub) + 1) : SubSeq(s, i, i + Len(sub) - 1) = sub

S_pnr == <<"p", "n", "r">>
S_train == <<"t", "r", "a", "i", "n">>
UnknownText == Lit("Sorry, I did not understand your request.")

\* classify, had the train keyword been tested first
classify_train_first(user_text) ==
    IF Contains(S_train, user_text) THEN "TrainQuery"
    ELSE IF Contains(S_pnr, user_text) THEN "PnrQuery"
    ELSE "Unknown"

\* the branch the keyword tests take on an already lower-cased text
classify(user_text) ==
    IF Contains(S_pnr, user_text) THEN "PnrQuery"
    ELSE IF Contains(S_train, user_text) THEN "TrainQuery"
    ELSE "Unknown"

\* the handler says what the branch produced and hangs up, unless it raised
Answered(result, calls) ==
    IF result.raised THEN Outcome(500, <<>>, calls)
    ELSE Outcome(200, <<Say(result.value), Hangup>>, calls)

process(simulated_text, st) ==
    IF ~simulated_text.present
    THEN Outcome(500, <<>>, <<>>)       \* None.lower(): AttributeError
    ELSE LET intent == classify(lower(simulated_text.value))
         IN  IF intent = "PnrQuery"
             THEN Answered(get_pnr_status(K_PNR123, st), <<Call("get_pnr_status", K_PNR123)>>)
             ELSE IF intent = "TrainQuery"
             THEN Answered(get_train_timing(K_12345, st), <<Call("get_train_timing", K_12345)>>)
             ELSE Answered(Returned(UnknownText), <<>>)

(***************************************************************************)
(* The inputs of the model.                                                *)
(***************************************************************************)
Words ==
    { <<"p", "n", "r">>,
      <<"P", "N", "R">>,
      <<"P", "n">>,
      <<"r">>,
      <<"t", "r", "a", "i", "n">>,
      <<"T", "R", "A", "I", "N">>,
      <<"t", "r", "a">>,
      <<"I", "n">>,
      <<"s", "h", "o", "w", " ", "m", "y", " ">>,
      <<" ", "s", "t", "a", "t", "u", "s">> }

RECURSIVE TextsUpTo(_)
TextsUpTo(n) ==
    IF n = 0 THEN {<<>>}
    ELSE LET shorter == TextsUpTo(n - 1)
         IN  shorter \cup {s \o w : s \in shorter, w \in Words}

TextInputs == {None} \cup {Some(s) : s \in TextsUpTo(MaxWords)}

\* keys the lookups are tried with: the stored ones and some never stored
LookupKeys == StoreKeys \cup {<<>>, <<"9", "9">>, <<"p", "n", "r", "1", "2", "3">>}

StageRoutes ==
    {"/voice", "/language", "/main-menu", "/pnr", "/train-status",
     "/train-schedule", "/repeat-menu"}

(***************************************************************************)
(* The provider: how it carries a document out.  Verbs run in order; a     *)
(* gather that collects keys posts them to its action route and one that   *)
(* collects none lets the next verb run; a redirect requests its route     *)
(* with no Digits; a hangup, or the end of the document, ends the call.    *)
(***************************************************************************)
NextRequest(route, digits) == [kind |-> "request", route |-> route, Digits |-> digits]
CallEnded == [kind |-> "ended"]

\* what a caller can key into a gather of n digits: at least one key, at
\* most n
Entries(n) == {d \in DigitInputs : d.present /\ Len(d.value) >= 1 /\ Len(d.value) <= n}

RECURSIVE ContinuationsFrom(_, _)
ContinuationsFrom(doc, i) ==
    IF i > Len(doc) THEN {CallEnded}
    ELSE IF doc[i].verb = "Gather"
         THEN {NextRequest(doc[i].action, d) : d \in Entries(doc[i].numDigits)}
              \cup ContinuationsFrom(doc, i + 1)
    ELSE IF doc[i].verb = "Redirect" THEN {NextRequest(doc[i].url, None)}
    ELSE IF doc[i].verb = "Hangup" THEN {CallEnded}
    ELSE ContinuationsFrom(doc, i + 1)

Continuations(doc) == ContinuationsFrom(doc, 1)

(***************************************************************************)
(* The state: the record store, the request being answered, the answer     *)
(* (HTTP status and document), the lookups the handler made, and the       *)
(* return of a lookup called on its own.  No handler keeps anything once   *)
(* it has returned, so between two requests only the store remains.        *)
(***************************************************************************)
Request(route, digits, text) ==
    [route |-> route, Digits |-> digits, simulated_text |-> text]
NoRequest == Request("", None, None)
NoReturn == [fn |-> "", key |-> <<>>, result |-> Returned(Lit(""))]
NoCall == [kind |-> "none"]
Earlier(route, digits) == [route |-> route, Digits |-> digits]
NoEarlier == Earlier("", None)

\* the request of each concurrent call and how far its handler has got:
\* "awaiting" is a handler suspended at "await request.form()"
CallIds == 1..NumCalls
InFlight(phase, route, digits, code, doc) ==
    [phase |-> phase, route |-> route, Digits |-> digits, code |-> code, doc |-> doc]
NotInFlight == InFlight("idle", "", None, 0, <<>>)

Init ==
    /\ store \in Stores
    /\ req = NoRequest
    /\ resp = <<>>
    /\ status = 0
    /\ consulted = <<>>
    /\ ret = NoReturn
    /\ pending = NoCall
    /\ prev = NoEarlier
    /\ hops = 0
    /\ inflight = [c \in CallIds |-> NotInFlight]

\* no request is being handled
Idle == req = NoRequest

\* a handler takes a request and answers it
Answer(route, digits, text, out) ==
    /\ req' = Request(route, digits, text)
    /\ resp' = out.doc
    /\ status' = out.status
    /\ consulted' = out.calls
    /\ UNCHANGED <<store, ret, callvars, inflight>>

Voice ==
    /\ Idle
    /\ \E d \in DigitInputs : Answer("/voice", d, None, Ok(voice))

Language ==
    /\ Idle
    /\ \E d \in DigitInputs : Answer("/language", d, None, Ok(language(d)))

MainMenu ==
    /\ Idle
    /\ \E d \in DigitInputs : Answer("/main-menu", d, None, Ok(main_menu(d)))

Pnr ==
    /\ Idle
    /\ \E d \in DigitInputs : Answer("/pnr", d, None, pnr(d, store))

TrainStatus ==
    /\ Idle
    /\ \E d \in DigitInputs : Answer("/train-status", d, None, train_status(d, store))

TrainSchedule ==
    /\ Idle
    /\ \E d \in DigitInputs : Answer("/train-schedule", d, None, train_schedule(d, store))

RepeatMenu ==
    /\ Idle
    /\ \E d \in DigitInputs : Answer("/repeat-menu", d, None, Ok(repeat_menu))

Process ==
    /\ Idle
    /\ \E t \in TextInputs : Answer("/process", None, t, process(t, store))

\* the handler returns: the answer goes to the provider and the handler's
\* locals (the form it read, the document it built) are gone
Return ==
    /\ ~Idle
    /\ req' = NoRequest
    /\ resp' = <<>>
    /\ status' = 0
    /\ consulted' = <<>>
    /\ UNCHANGED <<store, ret, callvars, inflight>>

Next ==
    \/ Voice
    \/ Language
    \/ MainMenu
    \/ Pnr
    \/ TrainStatus
    \/ TrainSchedule
    \/ RepeatMenu
    \/ Process
    \/ Return

Spec == Init /\ [][Next]_vars

(***************************************************************************)
(* The lookups called on their own, with any key against any store.        *)
(***************************************************************************)
GetPnrStatus ==
    \E k \in LookupKeys :
        /\ ret' = [fn |-> "get_pnr_status", key |-> k, result |-> get_pnr_status(k, store)]
        /\ UNCHANGED <<store, req, resp, status, consulted, callvars, inflight>>

GetTrainTiming ==
    \E k \in LookupKeys :
        /\ ret' = [fn |-> "get_train_timing", key |-> k, result |-> get_train_timing(k, store)]
        /\ UNCHANGED <<store, req, resp, status, consulted, callvars, inflight>>

LookupNext ==
    \/ GetPnrStatus
    \/ GetTrainTiming

LookupSpec == Init /\ [][LookupNext]_vars

(***************************************************************************)
(* One call, carried out by the provider: it starts at /voice, every       *)
(* request goes to the handler mounted on its route, and the provider      *)
(* carries the answer out to find the next request.                        *)
(***************************************************************************)
\* the handler a route is mounted on; a route without one gets a 404
Dispatch(route, digits, st) ==
    IF route = "/voice" THEN Ok(voice)
    ELSE IF route = "/language" THEN Ok(language(digits))
    ELSE IF route = "/main-menu" THEN Ok(main_menu(digits))
    ELSE IF route = "/pnr" THEN pnr(digits, st)
    ELSE IF route = "/train-status" THEN train_status(digits, st)
    ELSE IF route = "/train-schedule" THEN train_schedule(digits, st)
    ELSE IF route = "/repeat-menu" THEN Ok(repeat_menu)
    ELSE Outcome(404, <<>>, <<>>)

CallInit ==
    /\ store \in Stores
    /\ req = NoRequest
    /\ resp = <<>>
    /\ status = 0
    /\ consulted = <<>>
    /\ ret = NoReturn
    /\ pending = NextRequest("/voice", None)
    /\ prev = NoEarlier
    /\ hops = 0
    /\ inflight = [c \in CallIds |-> NotInFlight]

\* the pending request of the call is answered by its handler
Serve ==
    /\ Idle
    /\ pending.kind = "request"
    /\ Answer(pending.route, pending.Digits, None,
              Dispatch(pending.route, pending.Digits, store))

\* the provider carries the answer out: the caller keys something in or
\* not, and the call goes on with a next request or ends; a failed request
\* ends it
Follow ==
    /\ ~Idle
    /\ \E k \in (IF status = 200 THEN Continuations(resp) ELSE {CallEnded}) :
          /\ pending' = k
          /\ hops' = IF k.kind = "request" /\ ~k.Digits.present
                     THEN (IF hops < MaxHops THEN hops + 1 ELSE hops)
                     ELSE 0
    /\ prev' = Earlier(req.route, req.Digits)
    /\ req' = NoRequest
    /\ resp' = <<>>
    /\ status' = 0
    /\ consulted' = <<>>
    /\ UNCHANGED <<store, ret, inflight>>

CallNext ==
    \/ Serve
    \/ Follow

CallSpec == CallInit /\ [][CallNext]_vars

(***************************************************************************)
(* Concurrent calls.  The handlers are coroutines on one event loop: voice *)
(* and repeat_menu run to their return without a pause; the other five     *)
(* pause once, at "await request.form()", where the handlers of other      *)
(* calls may run, and then run to their return.                            *)
(***************************************************************************)
ConcurrentInputs == {None, Some(<<"1">>), Some(<<"2">>)}

PausingRoutes == StageRoutes \ {"/voice", "/repeat-menu"}

\* form_data.get("Digits") in the handler of call c, had the form been kept
\* in one place for all handlers: it yields the Digits of another request
\* in flight when there is one
FormDigits_shared(fl, c) ==
    LET others == {o \in CallIds \ {c} : fl[o].phase # "idle"}
    IN  IF others = {} THEN fl[c].Digits
        ELSE fl[CHOOSE o \in others : TRUE].Digits

\* form_data.get("Digits") in the handler of call c: the form of the request
\* the handler was started with
FormDigits(fl, c) == fl[c].Digits

\* a request of call c arrives and its handler starts
Arrive ==
    \E c \in CallIds, route \in StageRoutes, d \in ConcurrentInputs :
        /\ inflight[c].phase = "idle"
        /\ inflight' =
              [inflight EXCEPT ![c] =
                  IF route \in PausingRoutes
                  THEN InFlight("awaiting", route, d, 0, <<>>)
                  ELSE LET out == Dispatch(route, d, store)
                       IN  InFlight("answered", route, d, out.status, out.doc)]
        /\ UNCHANGED <<store, req, resp, status, consulted, ret, callvars>>

\* the paused handler of call c reads its form, builds its document and
\* returns
Resume ==
    \E c \in CallIds :
        /\ inflight[c].phase = "awaiting"
        /\ LET out == Dispatch(inflight[c].route, FormDigits(inflight, c), store)
           IN  inflight' =
                  [inflight EXCEPT ![c] =
                      InFlight("answered", inflight[c].route, inflight[c].Digits,
                               out.status, out.doc)]
        /\ UNCHANGED <<store, req, resp, status, consulted, ret, callvars>>

\* the answer reaches the provider; call c may send its next request
Deliver ==
    \E c \in CallIds :
        /\ inflight[c].phase = "answered"
        /\ inflight' = [inflight EXCEPT ![c] = NotInFlight]
        /\ UNCHANGED <<store, req, resp, status, consulted, ret, callvars>>

ConcurrentNext ==
    \/ Arrive
    \/ Resume
    \/ Deliver

ConcurrentSpec == Init /\ [][ConcurrentNext]_vars

(***************************************************************************)
(* Properties.  A request is "at" a route while its answer is in resp.     *)
(***************************************************************************)
At(route) == req.route = route

HasVerb(doc, v) == \E i \in 1..Len(doc) : doc[i].verb = v

ValidMainMenuDigits ==
    {<<"1">>, <<"2">>, <<"3">>, <<"4">>, <<"5">>, <<"9">>, <<"0">>}

InvalidMainMenuInput(d) == ~(d.present /\ d.value \in ValidMainMenuDigits)

\* C1: at /main-menu every input other than exactly "1","2","3","4","5","9",
\* "0" (longer strings, the empty string, a missing Digits) is answered with
\* the invalid-option notice and then a redirect to /voice, without gather
\* or hangup.
C1_InvalidOptionRestarts ==
    (At("/main-menu") /\ InvalidMainMenuInput(req.Digits)) =>
        /\ status = 200
        /\ Len(resp) = 2
        /\ resp[1] = Say(InvalidOptionText)
        /\ resp[2] = Redirect("/voice")
        /\ ~HasVerb(resp, "Gather")
        /\ ~HasVerb(resp, "Hangup")

\* a two-key input that starts with a valid option has been answered
C1_Witness ==
    /\ At("/main-menu")
    /\ req.Digits = Some(<<"1", "0">>)
    /\ resp = <<Say(InvalidOptionText), Redirect("/voice")>>

\* C2: at /language "1" yields a 1-digit gather to /main-menu, "2" the Hindi
\* message and hangup, every other input (a missing Digits too) the
\* invalid-selection notice and a redirect to /voice.
C2_LanguageSelect ==
    At("/language") =>
        /\ status = 200
        /\ req.Digits = Some(<<"1">>) =>
              /\ Len(resp) = 1
              /\ resp[1].verb = "Gather"
              /\ resp[1].numDigits = 1
              /\ resp[1].action = "/main-menu"
        /\ req.Digits = Some(<<"2">>) =>
              resp = <<Say(HindiText), Hangup>>
        /\ req.Digits \notin {Some(<<"1">>), Some(<<"2">>)} =>
              resp = <<Say(InvalidSelectionText), Redirect("/voice")>>

\* Hindi has been chosen and the call ended
C2_Witness ==
    /\ At("/language")
    /\ req.Digits = Some(<<"2">>)
    /\ HasVerb(resp, "Hangup")

PromptGather(doc, n, route) ==
    /\ Len(doc) = 1
    /\ doc[1].verb = "Gather"
    /\ doc[1].numDigits = n
    /\ doc[1].action = route

\* C3: at /main-menu "1" yields a gather of exactly 10 digits to /pnr, "2" a
\* gather of exactly 5 digits to /train-status, "3" a gather of exactly 5
\* digits to /train-schedule, each without redirect or hangup.
C3_PromptGathers ==
    At("/main-menu") =>
        /\ req.Digits = Some(<<"1">>) => PromptGather(resp, 10, "/pnr")
        /\ req.Digits = Some(<<"2">>) => PromptGather(resp, 5, "/train-status")
        /\ req.Digits = Some(<<"3">>) => PromptGather(resp, 5, "/train-schedule")
        /\ req.Digits \in {Some(<<"1">>), Some(<<"2">>), Some(<<"3">>)} =>
              /\ status = 200
              /\ ~HasVerb(resp, "Redirect")
              /\ ~HasVerb(resp, "Hangup")

\* option 1 has been answered with the PNR prompt
C3_Witness ==
    /\ At("/main-menu")
    /\ req.Digits = Some(<<"1">>)
    /\ HasVerb(resp, "Gather")

\* C4: at /main-menu "9" yields a redirect to /voice, without gather or
\* hangup.
C4_NineRestarts ==
    (At("/main-menu") /\ req.Digits = Some(<<"9">>)) =>
        /\ status = 200
        /\ HasVerb(resp, "Redirect")
        /\ \A i \in 1..Len(resp) :
              resp[i].verb = "Redirect" => resp[i].url = "/voice"
        /\ ~HasVerb(resp, "Gather")
        /\ ~HasVerb(resp, "Hangup")

\* option 9 has been answered
C4_Witness ==
    /\ At("/main-menu")
    /\ req.Digits = Some(<<"9">>)
    /\ resp = <<Redirect("/voice")>>

\* what the canned PNR announcement says after the number it echoes
PnrCanned == "PNR number {}. Your ticket is confirmed. Coach S 3. Seat 45."

HasWord(t, lowers, uppers) ==
    \E i \in 1..(Len(t) - Len(lowers) + 1) :
        \A j \in 1..Len(lowers) : t[i + j - 1] \in {lowers[j], uppers[j]}

HasPnr(t) == HasWord(t, <<"p", "n", "r">>, <<"P", "N", "R">>)
HasTrain(t) == HasWord(t, <<"t", "r", "a", "i", "n">>, <<"T", "R", "A", "I", "N">>)

\* which branch of /process answered, as the request's effects show it
TookPnrBranch == consulted = <<Call("get_pnr_status", K_PNR123)>>
TookTrainBranch == consulted = <<Call("get_train_timing", K_12345)>>
TookUnknownBranch ==
    /\ consulted = <<>>
    /\ status = 200
    /\ resp = <<Say(UnknownText), Hangup>>

ProcessedText == At("/process") /\ req.simulated_text.present

\* C6: on /process a text containing "pnr" in any letter case is a PNR query
\* even if it also contains "train"; a text containing "train" but not "pnr"
\* is a train query; every other text is unknown.
C6_IntentPriority ==
    ProcessedText =>
        LET t == req.simulated_text.value
        IN  /\ HasPnr(t) => TookPnrBranch
            /\ (HasTrain(t) /\ ~HasPnr(t)) => TookTrainBranch
            /\ (~HasTrain(t) /\ ~HasPnr(t)) => TookUnknownBranch

\* a text with "TRAIN" first and a mixed-case "Pnr" after it took the PNR
\* branch
C6_Witness ==
    /\ ProcessedText
    /\ req.simulated_text.value = <<"T", "R", "A", "I", "N", "P", "n", "r">>
    /\ TookPnrBranch

TrainQueryRequest ==
    /\ ProcessedText
    /\ HasTrain(req.simulated_text.value)
    /\ ~HasPnr(req.simulated_text.value)

\* C7 as stated: a train query on /process is answered with one fixed
\* message and a hangup, the same whatever the store holds.
C7_FixedTrainMessage ==
    TrainQueryRequest =>
        /\ status = 200
        /\ Len(resp) = 2
        /\ resp[1].verb = "Say"
        /\ resp[2] = Hangup
        /\ \A other \in Stores : process(req.simulated_text, other).doc = resp

\* C7 as amended: a train query on /process looks train "12345" up in the
\* store; a record with departure and arrival there is announced with its
\* times and the call hung up; no such key gives "Train not found." and a
\* hangup; an unreadable store or a record without those fields makes the
\* request fail with no document.
C7_TrainQueryLooksUp ==
    TrainQueryRequest =>
        /\ TookTrainBranch
        /\ IF ~store.available
           THEN status = 500 /\ resp = <<>>
           ELSE IF K_12345 \notin DOMAIN store.data
           THEN status = 200 /\ resp = <<Say(TrainNotFoundText), Hangup>>
           ELSE LET record == store.data[K_12345]
                IN  IF {"departure", "arrival"} \subseteq DOMAIN record
                    THEN /\ status = 200
                         /\ resp = <<Say(Text("Train departs at {} and arrives at {}.",
                                              <<record.departure, record.arrival>>)),
                                     Hangup>>
                    ELSE status = 500 /\ resp = <<>>

\* "show my train status" has been answered "Train not found." by a store
\* without train 12345
C7_Witness ==
    /\ At("/process")
    /\ req.simulated_text =
          Some(<<"s", "h", "o", "w", " ", "m", "y", " ", "t", "r", "a", "i", "n",
                 " ", "s", "t", "a", "t", "u", "s">>)
    /\ store.available
    /\ K_12345 \notin DOMAIN store.data
    /\ resp = <<Say(TrainNotFoundText), Hangup>>

\* C8: a /process request without simulated text is answered as an unknown
\* intent, "did not understand" and a hangup, and does not fail.
C8_MissingTextUnknown ==
    (At("/process") /\ ~req.simulated_text.present) => TookUnknownBranch

LookedUp == ret.fn # ""

\* C9: with a readable store, a lookup never raises, whatever the key and
\* whatever the shape of the record under it, and a key the store lacks gets
\* the not-found result.
C9_LookupNeverRaises ==
    (LookedUp /\ store.available) =>
        /\ ~ret.result.raised
        /\ ret.key \notin DOMAIN store.data =>
              ret.result.value \in {PnrNotFoundText, TrainNotFoundText}

(***************************************************************************)
(* The shape of stage documents.                                           *)
(***************************************************************************)
AtStage == req.route \in StageRoutes

OnlyVerbs(doc, vs) == \A i \in 1..Len(doc) : doc[i].verb \in vs

GatherOnly(doc) == HasVerb(doc, "Gather") /\ OnlyVerbs(doc, {"Gather", "Say"})
RedirectShape(doc) == HasVerb(doc, "Redirect") /\ OnlyVerbs(doc, {"Redirect", "Say"})
HangupShape(doc) == HasVerb(doc, "Hangup") /\ OnlyVerbs(doc, {"Hangup", "Say"})
PlainSay(doc) == OnlyVerbs(doc, {"Say"})
\* a gather first, and for the caller who enters nothing a hangup last
GatherElseHangup(doc) ==
    /\ Len(doc) >= 2
    /\ doc[1].verb = "Gather"
    /\ doc[Len(doc)] = Hangup
    /\ \A i \in 2..(Len(doc) - 1) : doc[i].verb = "Say"

\* C10 as stated: every stage document is gather-only, a redirect, a hangup
\* or a plain say, and none combines a gather with a hangup or a redirect.
C10_FourShapes ==
    AtStage =>
        /\ GatherOnly(resp) \/ RedirectShape(resp) \/ HangupShape(resp) \/ PlainSay(resp)
        /\ ~(HasVerb(resp, "Gather") /\ (HasVerb(resp, "Hangup") \/ HasVerb(resp, "Redirect")))

\* C10 as amended: every stage document is gather-only, a redirect, a
\* hangup, a plain say, or a gather followed by a hangup for the caller who
\* enters nothing; the last shape is that of /voice and /repeat-menu and of
\* no other stage, and no document combines a gather with a redirect or a
\* redirect with a hangup.
C10_FiveShapes ==
    AtStage =>
        /\ \/ GatherOnly(resp)
           \/ RedirectShape(resp)
           \/ HangupShape(resp)
           \/ PlainSay(resp)
           \/ GatherElseHangup(resp)
        /\ GatherElseHangup(resp) <=> req.route \in {"/voice", "/repeat-menu"}
        /\ ~(HasVerb(resp, "Gather") /\ HasVerb(resp, "Redirect"))
        /\ ~(HasVerb(resp, "Redirect") /\ HasVerb(resp, "Hangup"))

\* /repeat-menu has answered with a gather and a hangup in one document
C10_Witness ==
    /\ At("/repeat-menu")
    /\ HasVerb(resp, "Gather")
    /\ HasVerb(resp, "Hangup")

(***************************************************************************)
(* Every stage answers, and answers only.                                  *)
(***************************************************************************)
\* C11: every request to a stage route, whatever its input, is answered with
\* one voice document, and answering it changes nothing but the request
\* being handled and its answer: the record store and the lookups' state
\* stay as they were and no lookup is made.
C11_StageAnswersOnly ==
    [][(Idle /\ req'.route \in StageRoutes) =>
          /\ status' = 200
          /\ Len(resp') >= 1
          /\ \A i \in 1..Len(resp') : resp'[i].verb \in {"Say", "Gather", "Redirect", "Hangup"}
          /\ consulted' = <<>>
          /\ store' = store
          /\ ret' = ret
          /\ UNCHANGED <<callvars, inflight>>]_vars

\* /pnr has answered a request without Digits while the store is unreadable
C11_Witness ==
    /\ At("/pnr")
    /\ ~req.Digits.present
    /\ ~store.available
    /\ status = 200
    /\ Len(resp) = 2

\* C13: at /main-menu "4" speaks the booking information and "5" the
\* cancellation policy, each followed by a redirect to /repeat-menu without
\* gather or hangup; "0" speaks the goodbye and hangs up without redirect
\* or gather.
C13_InfoAndExit ==
    At("/main-menu") =>
        /\ req.Digits = Some(<<"4">>) =>
              resp = <<Say(BookingText), Redirect("/repeat-menu")>>
        /\ req.Digits = Some(<<"5">>) =>
              resp = <<Say(CancellationText), Redirect("/repeat-menu")>>
        /\ req.Digits \in {Some(<<"4">>), Some(<<"5">>)} =>
              ~HasVerb(resp, "Gather") /\ ~HasVerb(resp, "Hangup")
        /\ req.Digits = Some(<<"0">>) =>
              /\ resp = <<Say(GoodbyeText), Hangup>>
              /\ ~HasVerb(resp, "Redirect")
              /\ ~HasVerb(resp, "Gather")

\* option 0 has been answered with the goodbye
C13_Witness ==
    /\ At("/main-menu")
    /\ req.Digits = Some(<<"0">>)
    /\ status = 200
    /\ resp[1] = Say(GoodbyeText)

TrainStatusCanned == "Train number {} is running on time. Expected arrival at 4 PM."
TrainScheduleCanned ==
    "Train number {} departs from Chennai at 10 AM and arrives in Bangalore at 4 PM."

CannedThenRepeatMenu(template) ==
    /\ status = 200
    /\ consulted = <<>>
    /\ Len(resp) = 2
    /\ resp[1].verb = "Say"
    /\ resp[1].text.template = template
    /\ resp[1].text.args = <<PyStr(req.Digits)>>
    /\ resp[2] = Redirect("/repeat-menu")
    /\ ~HasVerb(resp, "Gather")
    /\ ~HasVerb(resp, "Hangup")

OneKeyTo(route) == {NextRequest(route, d) : d \in Entries(1)}

\* C15: /repeat-menu answers every request, whatever its input, with a
\* 1-digit gather to /main-menu followed by a hangup in the same document,
\* so that a collected digit leads to /main-menu and no digit ends the call.
C15_RepeatMenuGatherThenHangup ==
    At("/repeat-menu") =>
        /\ status = 200
        /\ Len(resp) = 2
        /\ resp[1].verb = "Gather"
        /\ resp[1].numDigits = 1
        /\ resp[1].action = "/main-menu"
        /\ resp[2] = Hangup
        /\ Continuations(resp) = OneKeyTo("/main-menu") \cup {CallEnded}

\* /repeat-menu has answered a request that carried Digits
C15_Witness ==
    /\ At("/repeat-menu")
    /\ req.Digits = Some(<<"7">>)
    /\ HasVerb(resp, "Gather")
    /\ HasVerb(resp, "Hangup")

\* C16: /voice answers every request, whatever its input, with the welcome
\* inside a 1-digit gather to /language, followed only by the no-input
\* notice and a hangup, so that a collected digit leads to /language and no
\* digit ends the call.
C16_EntryGather ==
    At("/voice") =>
        /\ status = 200
        /\ Len(resp) = 3
        /\ resp[1].verb = "Gather"
        /\ resp[1].numDigits = 1
        /\ resp[1].action = "/language"
        /\ resp[1].say = WelcomeText
        /\ resp[2] = Say(NoInputText)
        /\ resp[3] = Hangup
        /\ Continuations(resp) = OneKeyTo("/language") \cup {CallEnded}

\* /voice has answered a request that carried Digits
C16_Witness ==
    /\ At("/voice")
    /\ req.Digits = Some(<<"2">>)
    /\ resp[1].verb = "Gather"

\* C17: every gather action and every redirect target of a stage document
\* is one of the seven stage routes, never /process, /trigger-call or a
\* route without a handler.
C17_TargetsAreStageRoutes ==
    AtStage =>
        \A i \in 1..Len(resp) :
            /\ resp[i].verb = "Gather" => resp[i].action \in StageRoutes
            /\ resp[i].verb = "Redirect" => resp[i].url \in StageRoutes

\* /language has answered "1" with the gather that leads to the main menu
C17_Witness ==
    /\ At("/language")
    /\ req.Digits = Some(<<"1">>)
    /\ resp[1].verb = "Gather"
    /\ resp[1].action = "/main-menu"

DigitDrivenRoutes ==
    {"/language", "/main-menu", "/pnr", "/train-status", "/train-schedule"}

\* a hangup that no gather comes before
HangupWithoutGather(doc) ==
    \E i \in 1..Len(doc) :
        /\ doc[i].verb = "Hangup"
        /\ \A j \in 1..(i - 1) : doc[j].verb # "Gather"

ChoseToLeave ==
    \/ At("/language") /\ req.Digits = Some(<<"2">>)
    \/ At("/main-menu") /\ req.Digits = Some(<<"0">>)

InvalidInput ==
    \/ At("/language") /\ req.Digits \notin {Some(<<"1">>), Some(<<"2">>)}
    \/ At("/main-menu") /\ InvalidMainMenuInput(req.Digits)

\* C20: among the digit-driven stages a hangup that no gather precedes is
\* the answer to "2" at /language and to "0" at /main-menu and to nothing
\* else; every other stage and input gets a gather or a redirect, and an
\* invalid input never ends the call: it sends the call on to /voice.
C20_HangupOnlyByChoice ==
    req.route \in DigitDrivenRoutes =>
        /\ HangupWithoutGather(resp) <=> ChoseToLeave
        /\ ~ChoseToLeave => (HasVerb(resp, "Gather") \/ HasVerb(resp, "Redirect"))
        /\ InvalidInput => Continuations(resp) = {NextRequest("/voice", None)}

\* an invalid main-menu input has been answered without ending the call
C20_Witness ==
    /\ At("/main-menu")
    /\ req.Digits = Some(<<"*">>)
    /\ CallEnded \notin Continuations(resp)

(***************************************************************************)
(* A call that follows the documents it is given.                          *)
(***************************************************************************)
\* C18: redirects never chain: a redirect names /voice or /repeat-menu,
\* both answer with a gather first and without a redirect, and a call
\* follows at most one redirect between two prompts for input.
C18_RedirectsNeverChain ==
    /\ hops <= 1
    /\ \A i \in 1..Len(resp) :
          resp[i].verb = "Redirect" => resp[i].url \in {"/voice", "/repeat-menu"}
    /\ (At("/voice") \/ At("/repeat-menu")) =>
          /\ resp[1].verb = "Gather"
          /\ ~HasVerb(resp, "Redirect")

\* the call has followed a redirect to /repeat-menu and got a gather
C18_Witness ==
    /\ hops = 1
    /\ At("/repeat-menu")
    /\ prev.route = "/pnr"
    /\ resp[1].verb = "Gather"

\* C19: in a call that starts at /voice and follows its documents, /pnr,
\* /train-status and /train-schedule come right after /main-menu with "1",
\* "2" and "3"; /main-menu comes right after /language with "1" or after
\* /repeat-menu; /language comes right after /voice.
C19_MenuOrder ==
    /\ At("/pnr") => prev = Earlier("/main-menu", Some(<<"1">>))
    /\ At("/train-status") => prev = Earlier("/main-menu", Some(<<"2">>))
    /\ At("/train-schedule") => prev = Earlier("/main-menu", Some(<<"3">>))
    /\ At("/main-menu") =>
          \/ prev = Earlier("/language", Some(<<"1">>))
          \/ prev.route = "/repeat-menu"
    /\ At("/language") => prev.route = "/voice"

\* the call has reached /train-schedule through option 3 of the main menu
C19_Witness ==
    /\ At("/train-schedule")
    /\ req.Digits = Some(K_12345)
    /\ prev = Earlier("/main-menu", Some(<<"3">>))

(***************************************************************************)
(* Concurrent calls do not see each other.                                 *)
(***************************************************************************)
\* the document a request gets when it is the only one the server handles
AnswerAlone(route, digits) == Dispatch(route, digits, store).doc

\* C12: under any interleaving of the requests of concurrent calls each
\* call gets, for each request, the document that request gets when handled
\* alone, a function of the route and the Digits only; two calls that sent
\* the same request hold the same document.
C12_CallsIndependent ==
    /\ \A c \in CallIds :
          inflight[c].phase = "answered" =>
              /\ inflight[c].code = 200
              /\ inflight[c].doc = AnswerAlone(inflight[c].route, inflight[c].Digits)
              /\ \A st \in Stores :
                    Dispatch(inflight[c].route, inflight[c].Digits, st).doc = inflight[c].doc
    /\ \A c1, c2 \in CallIds :
          (/\ inflight[c1].phase = "answered"
           /\ inflight[c2].phase = "answered"
           /\ inflight[c1].route = inflight[c2].route
           /\ inflight[c1].Digits = inflight[c2].Digits)
          => inflight[c1].doc = inflight[c2].doc

\* call 1 has its answer to "1" at /main-menu while call 2, which sent "2"
\* to the same route before call 1 resumed, is still paused
C12_Witness ==
    /\ inflight[1].phase = "answered"
    /\ inflight[1].route = "/main-menu"
    /\ inflight[1].Digits = Some(<<"1">>)
    /\ inflight[1].doc = <<Gather(10, "/pnr", EnterPnrText)>>
    /\ inflight[2].phase = "awaiting"
    /\ inflight[2].route = "/main-menu"
    /\ inflight[2].Digits = Some(<<"2">>)

====
